---- MODULE Spec2Model ----
(***************************************************************************)
(* stable-diffusion.cpp-server: the POST /v1/images/generations endpoint   *)
(* (src/main.rs).  A request is extracted (JSON body), authenticated,      *)
(* translated into an argument vector, handed to an external process, and  *)
(* the file the process wrote is read, base64-encoded and removed.         *)
(*                                                                         *)
(* Rust Strings are TLA+ strings; Option<T> is a sequence of length <= 1;  *)
(* byte vectors are sequences of 0..255; an f32 is held in quarters (the   *)
(* integer q stands for q/4, which an f32 represents exactly).  The text   *)
(* of ErrorDetail.message is a sequence of characters, each a one-letter   *)
(* string or the name of a non-ASCII scalar value ("U+FFFD").              *)
(***************************************************************************)
EXTENDS Integers, Sequences, FiniteSets, TLC

VARIABLES context, now, fs, pc, request, local, child, response, hist

vars == <<context, now, fs, pc, request, local, child, response, hist>>

\* ------------------------------------------------------------ bounds
NumRequests == 2
MaxClock == 1

ReqIds == 1..NumRequests

\* ------------------------------------------------------------ Option<T>
None == <<>>

Some(v) == <<v>>

IsSome(o) == Len(o) = 1

Unwrap(o) == o[1]

\* ------------------------------------------------------------ strings
CharAt(s, i) == SubSeq(s, i, i)

\* str::starts_with
StartsWith(s, prefix) ==
  Len(s) >= Len(prefix) /\ SubSeq(s, 1, Len(prefix)) = prefix

\* &s[n..]
SliceFrom(s, n) == SubSeq(s, n + 1, Len(s))

\* The characters of a string, one by one.
Chars(s) == [k \in 1..Len(s) |-> CharAt(s, k)]

\* str::split(c).collect::<Vec<&str>>(): the pieces between the occurrences
\* of c; a string without c is its own single piece, also when empty.
RECURSIVE Split(_, _)
Split(s, c) ==
  LET hits == {k \in 1..Len(s) : CharAt(s, k) = c}
  IN  IF hits = {} THEN <<s>>
      ELSE LET k == CHOOSE h \in hits : \A g \in hits : h <= g
           IN  <<SubSeq(s, 1, k - 1)>> \o Split(SubSeq(s, k + 1, Len(s)), c)

DigitChars == "0123456789"

\* <u32 / u64 as Display>::to_string
RECURSIVE NatToString(_)
NatToString(n) ==
  IF n < 10 THEN CharAt(DigitChars, n + 1)
  ELSE NatToString(n \div 10) \o CharAt(DigitChars, (n % 10) + 1)

\* <i32 as Display>::to_string
IntToString(n) == IF n < 0 THEN "-" \o NatToString(0 - n) ELSE NatToString(n)

\* <f32 as Display>::to_string on a value held in quarters: the shortest
\* decimal that reads back as the same value, without a trailing ".0".
F32ToString(q) ==
  LET a == IF q < 0 THEN 0 - q ELSE q
      frac == CASE a % 4 = 0 -> ""
                [] a % 4 = 1 -> ".25"
                [] a % 4 = 2 -> ".5"
                [] OTHER -> ".75"
  IN  (IF q < 0 THEN "-" ELSE "") \o NatToString(a \div 4) \o frac

\* ------------------------------------------------------------ base64
B64Alphabet ==
  "ABCDEFGHIJKLMNOPQRSTUVWXYZabcdefghijklmnopqrstuvwxyz0123456789+/"

B64Char(v) == CharAt(B64Alphabet, v + 1)

\* base64::engine::general_purpose::STANDARD encode: the standard alphabet,
\* three bytes to four characters, '=' padding.
RECURSIVE Base64Encode(_)
Base64Encode(bytes) ==
  CASE Len(bytes) = 0 -> ""
    [] Len(bytes) = 1 ->
         B64Char(bytes[1] \div 4) \o B64Char((bytes[1] % 4) * 16) \o "=="
    [] Len(bytes) = 2 ->
         B64Char(bytes[1] \div 4)
           \o B64Char((bytes[1] % 4) * 16 + bytes[2] \div 16)
           \o B64Char((bytes[2] % 16) * 4) \o "="
    [] OTHER ->
         B64Char(bytes[1] \div 4)
           \o B64Char((bytes[1] % 4) * 16 + bytes[2] \div 16)
           \o B64Char((bytes[2] % 16) * 4 + bytes[3] \div 64)
           \o B64Char(bytes[3] % 64)
           \o Base64Encode(SubSeq(bytes, 4, Len(bytes)))

\* ------------------------------------------------------------ UTF-8
ReplacementChar == "U+FFFD"

\* The one-byte (ASCII) characters the modelled diagnostics are made of.
AsciiBytes == {32, 69, 77, 79}

AsciiOf(b) ==
  CASE b = 32 -> " "
    [] b = 69 -> "E"
    [] b = 77 -> "M"
    [] OTHER -> "O"

\* String::from_utf8_lossy: valid sequences decode to their character, and
\* every maximal invalid part becomes U+FFFD.  Covers one-byte characters,
\* the two-byte character C3 A9 (U+00E9), and bytes that start or continue
\* nothing valid (a lone lead byte, a lone continuation byte, FF).
RECURSIVE FromUtf8Lossy(_)
FromUtf8Lossy(bytes) ==
  IF Len(bytes) = 0 THEN <<>>
  ELSE IF bytes[1] \in AsciiBytes
         THEN <<AsciiOf(bytes[1])>> \o FromUtf8Lossy(Tail(bytes))
  ELSE IF bytes[1] = 195 /\ Len(bytes) >= 2 /\ bytes[2] = 169
         THEN <<"U+00E9">> \o FromUtf8Lossy(SubSeq(bytes, 3, Len(bytes)))
  ELSE <<ReplacementChar>> \o FromUtf8Lossy(Tail(bytes))

\* ------------------------------------------------------------ request body
\* fn default_size / default_steps / default_cfg_scale / default_seed
default_size == "512x512"

default_steps == 20

\* 7.0, in quarters
default_cfg_scale == 28

default_seed == 0 - 1

\* A JSON body: well-formed or not, and the value (if any) of each key.
JsonBody(wf, prompt, model, size, negative_prompt, steps, cfg_scale, seed) ==
  [prompt |-> prompt, model |-> model, size |-> size,
   negative_prompt |-> negative_prompt, steps |-> steps,
   cfg_scale |-> cfg_scale, seed |-> seed, well_formed |-> wf]

\* web::Json<ImageGenerationRequest>: #[derive(Deserialize)] with the serde
\* defaults.  prompt and model are required; steps is a u32, so a negative
\* number is refused (the integers here do not exceed 32 bits, so the upper
\* ends of u32 and i32 are not met).
Deserialize(json) ==
  IF /\ json.well_formed
     /\ IsSome(json.prompt)
     /\ IsSome(json.model)
     /\ (IsSome(json.steps) => Unwrap(json.steps) >= 0)
  THEN [ok |-> TRUE,
        value |->
          [prompt |-> Unwrap(json.prompt),
           model |-> Unwrap(json.model),
           size |-> IF IsSome(json.size) THEN Unwrap(json.size)
                    ELSE default_size,
           negative_prompt |-> json.negative_prompt,
           steps |-> IF IsSome(json.steps) THEN Unwrap(json.steps)
                     ELSE default_steps,
           cfg_scale |-> IF IsSome(json.cfg_scale) THEN Unwrap(json.cfg_scale)
                         ELSE default_cfg_scale,
           seed |-> IF IsSome(json.seed) THEN Unwrap(json.seed)
                    ELSE default_seed]]
  ELSE [ok |-> FALSE]

\* ------------------------------------------------------------ authentication
\* A header value: its text, and whether it holds a byte outside visible
\* ASCII, which makes HeaderValue::to_str fail.
HeaderValue(text, opaque) == [text |-> text, opaque |-> opaque]

BearerPrefix == "Bearer "

\* fn verify_bearer_token: Ok (TRUE) or Err(401 response) (FALSE).
verify_bearer_token(header, expected_token) ==
  /\ IsSome(header)
  /\ ~Unwrap(header).opaque
  /\ StartsWith(Unwrap(header).text, BearerPrefix)
  /\ SliceFrom(Unwrap(header).text, Len(BearerPrefix)) = expected_token

\* ------------------------------------------------------------ arguments
\* format!("{}/sd_output_{}.png", context.cache_dir, timestamp)
OutputPath(cache_dir, timestamp) ==
  cache_dir \o "/sd_output_" \o NatToString(timestamp) \o ".png"

\* The -W / -H arguments of generate_image.
SizeArgs(size) ==
  LET size_parts == Split(size, "x")
  IN  IF Len(size_parts) = 2
      THEN <<"-W", size_parts[1], "-H", size_parts[2]>>
      ELSE <<>>

\* BuildArgs with the -n pair pushed ahead of the --seed pair.
BuildArgs_NegBeforeSeed(ctx, body, output_path) ==
  (IF IsSome(ctx.args) THEN Unwrap(ctx.args) ELSE <<>>)
    \o <<"-m", ctx.models_dir \o "/" \o body.model>>
    \o <<"-p", body.prompt>>
    \o <<"-o", output_path>>
    \o <<"--steps", NatToString(body.steps)>>
    \o <<"--cfg-scale", F32ToString(body.cfg_scale)>>
    \o (IF IsSome(body.negative_prompt)
        THEN <<"-n", Unwrap(body.negative_prompt)>> ELSE <<>>)
    \o (IF body.seed >= 0 THEN <<"--seed", IntToString(body.seed)>> ELSE <<>>)
    \o SizeArgs(body.size)

\* The arguments generate_image gives the Command, in the order of its
\* cmd.arg calls.
BuildArgs(ctx, body, output_path) ==
  (IF IsSome(ctx.args) THEN Unwrap(ctx.args) ELSE <<>>)
    \o <<"-m", ctx.models_dir \o "/" \o body.model>>
    \o <<"-p", body.prompt>>
    \o <<"-o", output_path>>
    \o <<"--steps", NatToString(body.steps)>>
    \o <<"--cfg-scale", F32ToString(body.cfg_scale)>>
    \o (IF body.seed >= 0 THEN <<"--seed", IntToString(body.seed)>> ELSE <<>>)
    \o (IF IsSome(body.negative_prompt)
        THEN <<"-n", Unwrap(body.negative_prompt)>> ELSE <<>>)
    \o SizeArgs(body.size)

\* ------------------------------------------------------------ responses
NoResponse == [status |-> 0]

\* HttpResponse::<status>().json(ErrorResponse { error: ErrorDetail { .. } })
ErrorResponse(status, message, error_type) ==
  [status |-> status,
   error |-> [message |-> message, type |-> error_type]]

\* HttpResponse::Ok().json(ImageGenerationResponse { created, data })
ImageGenerationResponse(created, b64) ==
  [status |-> 200, created |-> created, data |-> <<[b64_json |-> b64]>>]

\* What the Json extractor answers when the body does not deserialize: the
\* handler is not called.
JsonPayloadError == [status |-> 400, text |-> "Json deserialize error"]

\* std::io::Error kinds met here, and their Display text.
NotFound == "No such file or directory (os error 2)"

\* ------------------------------------------------------------ inputs
\* The process-wide Context (Context::default()).
Contexts ==
  {[token |-> "s3", args |-> a, models_dir |-> "/m", cache_dir |-> "/tmp"] :
     a \in {None, Some(<<>>), Some(<<"--vae-tiling", "-v">>)}}

MainContext ==
  [token |-> "s3", args |-> Some(<<"-v">>), models_dir |-> "/m",
   cache_dir |-> "/tmp"]

ValidHeader == Some(HeaderValue("Bearer s3", FALSE))

InvalidHeaders ==
  {None,
   Some(HeaderValue("bearer s3", FALSE)),
   Some(HeaderValue("Bearer s3x", FALSE)),
   Some(HeaderValue("Bearer", FALSE)),
   Some(HeaderValue("Bearer  s3", FALSE)),
   Some(HeaderValue("s3", FALSE)),
   Some(HeaderValue("Bearer s3", TRUE))}

Malformed == JsonBody(FALSE, None, None, None, None, None, None, None)

MinimalBody ==
  JsonBody(TRUE, Some("a cat"), Some("sd-v1.ckpt"), None, None, None, None,
           None)

\* The bodies of the concurrent specification.
MainBodies == {Malformed, MinimalBody}

MainHeaders == {None, ValidHeader}

\* The headers the bearer check is exercised on.
ArgHeaders == {ValidHeader} \cup InvalidHeaders

\* The bodies the argument builder is exercised on.
Sizes == {"512x512", "512", "512x512x1", "", "x", "512x", "x512", "64x32"}

ArgBodies ==
  {Malformed,
   JsonBody(TRUE, None, Some("sd-v1.ckpt"), None, None, None, None, None),
   JsonBody(TRUE, Some("a cat"), Some("m"), None, None, Some(0 - 1), None,
            None)}
  \cup
  {JsonBody(TRUE, Some(p), Some("sd-v1.ckpt"), sz, n, st, cf, sd) :
     p \in {"a cat", "-o /etc/x; rm"},
     sz \in {None} \cup {Some(z) : z \in Sizes},
     n \in {None, Some(""), Some("blurry")},
     st \in {None, Some(0), Some(105)},
     cf \in {None, Some(30), Some(0 - 5)},
     sd \in {None, Some(0), Some(42), Some(0 - 7)}}

\* What an external process may write to its output path, and to stderr.
ImageSet == {<<255, 216>>, <<137, 80, 78, 71>>}

StderrSet == {<<79, 195, 169, 77>>, <<69, 255>>}

\* ------------------------------------------------------------ state
NoLocal ==
  [body |-> Deserialize(MinimalBody).value, timestamp |-> 0,
   output_path |-> "", args |-> <<>>, image_data |-> <<>>]

NoChild ==
  [state |-> "none", args |-> <<>>, wrote |-> FALSE, status |-> 0,
   stderr |-> <<>>]

NoHist ==
  [events |-> <<>>, read |-> "no", read_bytes |-> <<>>, read_writer |-> 0,
   missing_after_write |-> FALSE, removed |-> "no", gone |-> FALSE]

InitWith(ctxs) ==
  /\ context \in ctxs
  /\ now = 0
  /\ fs = <<>>
  /\ pc = [i \in ReqIds |-> "idle"]
  /\ request = [i \in ReqIds |-> [header |-> None, body |-> Malformed]]
  /\ local = [i \in ReqIds |-> NoLocal]
  /\ child = [i \in ReqIds |-> NoChild]
  /\ response = [i \in ReqIds |-> NoResponse]
  /\ hist = [i \in ReqIds |-> NoHist]

Init == InitWith({MainContext})

Log(i, evs) == [hist[i] EXCEPT !.events = @ \o evs]

\* A POST /v1/images/generations request arrives and the handler's
\* parameter body: web::Json<ImageGenerationRequest> is extracted from it,
\* before generate_image's own code runs.
ExtractFrom(i, headers, bodies) ==
  /\ pc[i] = "idle"
  /\ i > 1 => pc[i - 1] # "idle"
  /\ \E h \in headers, b \in bodies :
       /\ request' = [request EXCEPT ![i] = [header |-> h, body |-> b]]
       /\ LET r == Deserialize(b)
          IN  IF r.ok
              THEN /\ local' = [local EXCEPT ![i].body = r.value]
                   /\ pc' = [pc EXCEPT ![i] = "handler"]
                   /\ hist' = [hist EXCEPT ![i] = Log(i, <<"json">>)]
                   /\ UNCHANGED response
              ELSE /\ response' = [response EXCEPT ![i] = JsonPayloadError]
                   /\ pc' = [pc EXCEPT ![i] = "done"]
                   /\ hist' = [hist EXCEPT ![i] =
                        Log(i, <<"json", "respond">>)]
                   /\ UNCHANGED local
  /\ UNCHANGED <<context, now, fs, child>>

ExtractJson(i) == ExtractFrom(i, MainHeaders, MainBodies)

\* generate_image up to cmd.output(): the bearer check, the timestamp, the
\* output path and the Command's arguments.  SystemTime::now() gives the
\* seconds since the epoch, which never run backwards: the second last seen
\* by a request, or a later one.
Prepare(i) ==
  /\ pc[i] = "handler"
  /\ IF verify_bearer_token(request[i].header, context.token)
     THEN \E timestamp \in now..MaxClock :
            LET output_path == OutputPath(context.cache_dir, timestamp)
            IN  /\ now' = timestamp
                /\ local' = [local EXCEPT
                      ![i].timestamp = timestamp,
                      ![i].output_path = output_path,
                      ![i].args =
                        BuildArgs(context, local[i].body, output_path)]
                /\ pc' = [pc EXCEPT ![i] = "spawn"]
                /\ hist' = [hist EXCEPT ![i] = Log(i, <<"auth">>)]
                /\ UNCHANGED response
     ELSE /\ response' = [response EXCEPT ![i] =
               ErrorResponse(401,
                 Chars("Invalid or missing authorization token"),
                 "invalid_request_error")]
          /\ pc' = [pc EXCEPT ![i] = "done"]
          /\ hist' = [hist EXCEPT ![i] = Log(i, <<"auth", "respond">>)]
          /\ UNCHANGED <<now, local>>
  /\ UNCHANGED <<context, fs, request, child>>

\* Err(e) of cmd.output().await
SpawnFailureResponse(e) ==
  ErrorResponse(500, Chars("Failed to execute sd command: " \o e),
                "server_error")

\* ExitFailureResponse without the captured stderr.
ExitFailureResponse_NoStderr(stderr) ==
  ErrorResponse(500, Chars("Image generation failed"), "server_error")

\* Ok(output) with !output.status.success()
ExitFailureResponse(stderr) ==
  ErrorResponse(500,
                Chars("Image generation failed: ") \o FromUtf8Lossy(stderr),
                "server_error")

\* Err(e) of tokio::fs::read(&output_path).await
ReadFailureResponse(e) ==
  ErrorResponse(500, Chars("Failed to read output image: " \o e),
                "server_error")

\* SuccessResponse with the padding of the encoding left out.
SuccessResponse_NoPad(timestamp, image_data) ==
  LET b64 == Base64Encode(image_data)
      n == Cardinality({k \in 1..Len(b64) : CharAt(b64, k) # "="})
  IN  ImageGenerationResponse(timestamp, SubSeq(b64, 1, n))

\* Ok(image_data) of tokio::fs::read(&output_path).await
SuccessResponse(timestamp, image_data) ==
  ImageGenerationResponse(timestamp, Base64Encode(image_data))

\* AfterOutput going on to the read whatever the exit status.
AfterOutput_NoShortCircuit(status) == "read"

\* Where generate_image goes on the process's exit status.
AfterOutput(status) == IF status = 0 THEN "read" ELSE "done"

\* AfterRead going on to the removal whatever the result.
AfterRead_Always(read_ok) == "remove"

\* Where generate_image goes on the result of reading the output path.
AfterRead(read_ok) == IF read_ok THEN "remove" ELSE "done"

\* cmd.output().await, first half: the external program is started, or
\* cannot be (a missing binary).
Spawn(i) ==
  /\ pc[i] = "spawn"
  /\ \E started \in BOOLEAN :
       IF started
       THEN /\ child' = [child EXCEPT ![i] =
                 [NoChild EXCEPT !.state = "running", !.args = local[i].args]]
            /\ pc' = [pc EXCEPT ![i] = "output"]
            /\ hist' = [hist EXCEPT ![i] = Log(i, <<"spawn">>)]
            /\ UNCHANGED response
       ELSE /\ response' = [response EXCEPT ![i] =
                 SpawnFailureResponse(NotFound)]
            /\ pc' = [pc EXCEPT ![i] = "done"]
            /\ hist' = [hist EXCEPT ![i] = Log(i, <<"spawn", "respond">>)]
            /\ UNCHANGED child
  /\ UNCHANGED <<context, now, fs, request, local>>

\* The value the external program finds after its -o flag: the path it
\* writes its image to.  The flag that follows "-p <prompt>" is meant.
OutputArg(args) ==
  LET k == CHOOSE j \in 1..Len(args) :
             /\ args[j] = "-o"
             /\ j > 2
             /\ args[j - 2] = "-p"
  IN  args[k + 1]

\* The external program writes an image to its output path.
ChildWrite(i) ==
  /\ child[i].state = "running"
  /\ ~child[i].wrote
  /\ \E bytes \in ImageSet :
       LET path == OutputArg(child[i].args)
       IN  fs' = [p \in DOMAIN fs \cup {path} |->
                    IF p = path THEN [bytes |-> bytes, writer |-> i]
                    ELSE fs[p]]
  /\ child' = [child EXCEPT ![i].wrote = TRUE]
  /\ UNCHANGED <<context, now, pc, request, local, response, hist>>

\* cmd.output().await, second half: the external program exits and its
\* status and stderr are matched.
ChildExit(i) ==
  /\ child[i].state = "running"
  /\ pc[i] = "output"
  /\ \E status \in {0, 1} :
     \E stderr \in IF status = 0 THEN {<<>>} ELSE StderrSet :
       /\ child' = [child EXCEPT ![i].state = "exited", ![i].status = status,
                                 ![i].stderr = stderr]
       /\ pc' = [pc EXCEPT ![i] = AfterOutput(status)]
       /\ IF status = 0
          THEN UNCHANGED <<response, hist>>
          ELSE /\ response' = [response EXCEPT ![i] =
                    ExitFailureResponse(stderr)]
               /\ hist' = [hist EXCEPT ![i] = Log(i, <<"respond">>)]
  /\ UNCHANGED <<context, now, fs, request, local>>

\* tokio::fs::read(&output_path).await and its match.
ReadOutput(i) ==
  /\ pc[i] = "read"
  /\ LET path == local[i].output_path
         read_ok == path \in DOMAIN fs
     IN  /\ pc' = [pc EXCEPT ![i] = AfterRead(read_ok)]
         /\ IF read_ok
            THEN /\ local' = [local EXCEPT ![i].image_data = fs[path].bytes]
                 /\ hist' = [hist EXCEPT ![i] =
                      [Log(i, <<"read">>) EXCEPT
                         !.read = "ok",
                         !.read_bytes = fs[path].bytes,
                         !.read_writer = fs[path].writer]]
                 /\ UNCHANGED response
            ELSE /\ response' = [response EXCEPT ![i] =
                      ReadFailureResponse(NotFound)]
                 /\ hist' = [hist EXCEPT ![i] =
                      [Log(i, <<"read", "respond">>) EXCEPT
                         !.read = "err",
                         !.missing_after_write = child[i].wrote]]
                 /\ UNCHANGED local
  /\ UNCHANGED <<context, now, fs, request, child>>

\* let _ = tokio::fs::remove_file(&output_path).await, its result dropped,
\* and the 200 response.
RemoveAndRespond(i) ==
  /\ pc[i] = "remove"
  /\ LET path == local[i].output_path
     IN  \E removed \in BOOLEAN :
           /\ removed => path \in DOMAIN fs
           /\ fs' = IF removed THEN [p \in DOMAIN fs \ {path} |-> fs[p]]
                    ELSE fs
           /\ hist' = [hist EXCEPT ![i] =
                [Log(i, <<"remove", "respond">>) EXCEPT
                   !.removed = IF removed THEN "ok" ELSE "err",
                   !.gone = path \notin DOMAIN fs']]
  /\ response' = [response EXCEPT ![i] =
       SuccessResponse(local[i].timestamp, local[i].image_data)]
  /\ pc' = [pc EXCEPT ![i] = "done"]
  /\ UNCHANGED <<context, now, request, local, child>>

Next ==
  \/ \E i \in ReqIds : ExtractJson(i)
  \/ \E i \in ReqIds : Prepare(i)
  \/ \E i \in ReqIds : Spawn(i)
  \/ \E i \in ReqIds : ChildWrite(i)
  \/ \E i \in ReqIds : ChildExit(i)
  \/ \E i \in ReqIds : ReadOutput(i)
  \/ \E i \in ReqIds : RemoveAndRespond(i)

Spec == Init /\ [][Next]_vars

\* One request at a time, over the wide ranges of headers, bodies and
\* configurations, up to the built Command.
InitArgs == InitWith(Contexts)

ExtractArgs == ExtractFrom(1, ArgHeaders, ArgBodies)

PrepareArgs == Prepare(1)

NextArgs ==
  \/ ExtractArgs
  \/ PrepareArgs

SpecArgs == InitArgs /\ [][NextArgs]_vars

\* ============================================================ properties
\* Helpers of the properties below; none of them is used by the actions.

Count(seq, x) == Cardinality({k \in 1..Len(seq) : seq[k] = x})

Has(seq, x) == \E k \in 1..Len(seq) : seq[k] = x

IsPrefix(p, seq) == Len(p) <= Len(seq) /\ SubSeq(seq, 1, Len(p)) = p

Responded(i) == pc[i] = "done"

\* The request has its Command built (it passed the bearer check).
Built(i) == pc[i] \in {"spawn", "output", "read", "remove"}

SpawnFailed(i) ==
  Responded(i) /\ Has(hist[i].events, "spawn") /\ child[i].state = "none"

ExitedNonZero(i) == child[i].state = "exited" /\ child[i].status # 0

ExitedZero(i) == child[i].state = "exited" /\ child[i].status = 0

IsError(r, status, type) ==
  /\ r.status = status
  /\ DOMAIN r = {"status", "error"}
  /\ r.error.type = type

\* Reading a decimal numeral back.
RECURSIVE ParseDecimal(_)
ParseDecimal(s) ==
  IF Len(s) = 0 THEN 0
  ELSE ParseDecimal(SubSeq(s, 1, Len(s) - 1)) * 10
         + (CHOOSE d \in 0..9 : CharAt("0123456789", d + 1) = CharAt(s, Len(s)))

\* Decoding standard base64 with padding; <<-1>> for text that is not.
StandardAlphabet ==
  "ABCDEFGHIJKLMNOPQRSTUVWXYZabcdefghijklmnopqrstuvwxyz0123456789+/"

B64Value(c) == CHOOSE v \in 0..63 : CharAt(StandardAlphabet, v + 1) = c

IsB64(c) == \E v \in 0..63 : CharAt(StandardAlphabet, v + 1) = c

RECURSIVE Base64Decode(_)
Base64Decode(s) ==
  IF Len(s) = 0 THEN <<>>
  ELSE IF Len(s) < 4 \/ ~IsB64(CharAt(s, 1)) \/ ~IsB64(CharAt(s, 2))
    THEN <<-1>>
  ELSE
    LET v1 == B64Value(CharAt(s, 1))
        v2 == B64Value(CharAt(s, 2))
        c3 == CharAt(s, 3)
        c4 == CharAt(s, 4)
        b1 == v1 * 4 + v2 \div 16
        rest == Base64Decode(SubSeq(s, 5, Len(s)))
    IN  IF c3 = "=" /\ c4 = "="
          THEN IF Len(s) = 4 /\ v2 % 16 = 0 THEN <<b1>> ELSE <<-1>>
        ELSE IF ~IsB64(c3) THEN <<-1>>
        ELSE
          LET v3 == B64Value(c3)
              b2 == (v2 % 16) * 16 + v3 \div 4
          IN  IF c4 = "="
                THEN IF Len(s) = 4 /\ v3 % 4 = 0 THEN <<b1, b2>> ELSE <<-1>>
              ELSE IF ~IsB64(c4) \/ rest = <<-1>> THEN <<-1>>
              ELSE <<b1, b2, (v3 % 4) * 64 + B64Value(c4)>> \o rest

\* The UTF-8 bytes of a text.
RECURSIVE Utf8Encode(_)
Utf8Encode(text) ==
  IF Len(text) = 0 THEN <<>>
  ELSE (CASE text[1] = "U+FFFD" -> <<239, 191, 189>>
          [] text[1] = "U+00E9" -> <<195, 169>>
          [] text[1] = " " -> <<32>>
          [] text[1] = "E" -> <<69>>
          [] text[1] = "M" -> <<77>>
          [] text[1] = "O" -> <<79>>
          [] OTHER -> <<0>>) \o Utf8Encode(Tail(text))

\* Whether bytes are well-formed UTF-8 (one- and two-byte sequences).
RECURSIVE Utf8Valid(_)
Utf8Valid(bytes) ==
  IF Len(bytes) = 0 THEN TRUE
  ELSE IF bytes[1] < 128 THEN Utf8Valid(Tail(bytes))
  ELSE /\ bytes[1] \in 194..223
       /\ Len(bytes) >= 2
       /\ bytes[2] \in 128..191
       /\ Utf8Valid(SubSeq(bytes, 3, Len(bytes)))

\* text holds the bytes as they are, somewhere in it.
ContainsVerbatim(text, bytes) ==
  \E a \in 1..(Len(text) + 1), b \in 0..Len(text) :
    Utf8Encode(SubSeq(text, a, b)) = bytes

\* The part of the arguments that comes before the -W / -H pair.
ArgsBeforeSize(ctx, body, output_path) ==
  LET sections ==
        <<[on |-> IsSome(ctx.args),
           toks |-> IF IsSome(ctx.args) THEN Unwrap(ctx.args) ELSE <<>>],
          [on |-> TRUE, toks |-> <<"-m", ctx.models_dir \o "/" \o body.model>>],
          [on |-> TRUE, toks |-> <<"-p", body.prompt>>],
          [on |-> TRUE, toks |-> <<"-o", output_path>>],
          [on |-> TRUE, toks |-> <<"--steps", NatToString(body.steps)>>],
          [on |-> TRUE,
           toks |-> <<"--cfg-scale", F32ToString(body.cfg_scale)>>],
          [on |-> body.seed >= 0,
           toks |-> <<"--seed", IntToString(body.seed)>>],
          [on |-> body.negative_prompt # None,
           toks |-> <<"-n">> \o body.negative_prompt]>>
      Flat[k \in 0..Len(sections)] ==
        IF k = 0 THEN <<>>
        ELSE Flat[k - 1] \o (IF sections[k].on THEN sections[k].toks ELSE <<>>)
  IN  Flat[Len(sections)]

\* A size made of exactly two non-empty parts with one 'x' between them.
TwoNonEmptyParts(size) ==
  \E k \in 2..(Len(size) - 1) :
    /\ CharAt(size, k) = "x"
    /\ \A j \in 1..Len(size) : CharAt(size, j) = "x" => j = k

WidthOf(size) ==
  SubSeq(size, 1, (CHOOSE k \in 1..Len(size) : CharAt(size, k) = "x") - 1)

HeightOf(size) ==
  SubSeq(size, (CHOOSE k \in 1..Len(size) : CharAt(size, k) = "x") + 1,
         Len(size))

\* ------------------------------------------------------------ claims

\* C1 (as stated): a request without a valid bearer credential is answered
\* 401 invalid_request_error, and no process is spawned, no file read and
\* none removed for it.
C1_Unauthorized401 ==
  \A i \in ReqIds :
    (pc[i] # "idle" /\ ~verify_bearer_token(request[i].header, context.token))
      => /\ Responded(i) => IsError(response[i], 401, "invalid_request_error")
         /\ ~Has(hist[i].events, "spawn")
         /\ ~Has(hist[i].events, "read")
         /\ ~Has(hist[i].events, "remove")

\* C2 (as stated): the bearer check is the first step applied to a request;
\* the body is never decoded before the check has been made, so decoding
\* never decides the response of an unchecked request.
C2_AuthBeforeJson ==
  \A i \in ReqIds :
    \A k \in 1..Len(hist[i].events) :
      hist[i].events[k] = "json"
        => \E j \in 1..(k - 1) : hist[i].events[j] = "auth"

\* C3: the arguments of an authenticated request are the fixed arguments,
\* -m, -p, -o, --steps, --cfg-scale, then --seed exactly when seed >= 0 (its
\* numeral reading back as the seed), then -n exactly when a negative prompt
\* was given, then nothing or the -W / -H pair; each value its own token.
C3_ArgumentOrder ==
  \A i \in ReqIds :
    Built(i) =>
      LET body == local[i].body
          args == local[i].args
          before == ArgsBeforeSize(context, body, local[i].output_path)
          rest == SubSeq(args, Len(before) + 1, Len(args))
          seeds == {k \in 1..Len(before) : before[k] = "--seed"}
      IN  /\ local[i].output_path
               = OutputPath(context.cache_dir, local[i].timestamp)
          /\ IsPrefix(before, args)
          /\ \/ rest = <<>>
             \/ Len(rest) = 4 /\ rest[1] = "-W" /\ rest[3] = "-H"
          /\ body.seed < 0 => ~Has(args, "--seed")
          /\ body.seed >= 0
               => \E k \in 1..(Len(args) - 1) :
                    /\ args[k] = "--seed"
                    /\ ParseDecimal(args[k + 1]) = body.seed
                    /\ args[k - 1] = F32ToString(body.cfg_scale)
          /\ body.negative_prompt = None => ~Has(args, "-n")

\* C3's case: fixed arguments, a seed, a negative prompt and a size pair all
\* present in one built Command.
C3_Witness ==
  \E i \in ReqIds :
    /\ Built(i)
    /\ context.args = Some(<<"--vae-tiling", "-v">>)
    /\ local[i].body.seed = 42
    /\ local[i].body.negative_prompt = Some("blurry")
    /\ local[i].body.cfg_scale = 30
    /\ local[i].body.size = "64x32"
    /\ Len(local[i].args) = 20

\* C4 (as stated): -W / -H are produced exactly when size is two non-empty
\* parts around one 'x', and then carry the first and the second part.
C4_SizeFlags ==
  \A i \in ReqIds :
    Built(i) =>
      LET size == local[i].body.size
          args == local[i].args
          before == ArgsBeforeSize(context, local[i].body,
                                   local[i].output_path)
          rest == SubSeq(args, Len(before) + 1, Len(args))
      IN  IF TwoNonEmptyParts(size)
          THEN rest = <<"-W", WidthOf(size), "-H", HeightOf(size)>>
          ELSE rest = <<>>

\* C5 (as stated): a spawn failure or a non-zero exit is answered 500
\* server_error without image data, and after a non-zero exit the message
\* holds the captured stderr as it is.
C5_StderrVerbatim ==
  \A i \in ReqIds :
    /\ (SpawnFailed(i) \/ (Responded(i) /\ ExitedNonZero(i)))
         => IsError(response[i], 500, "server_error")
    /\ (Responded(i) /\ ExitedNonZero(i))
         => ContainsVerbatim(response[i].error.message, child[i].stderr)

\* C5 (amended): a spawn failure or a non-zero exit is answered 500
\* server_error without image data; after a non-zero exit the message is
\* "Image generation failed: " followed by the captured stderr read as UTF-8
\* with every invalid part replaced by U+FFFD, which is the stderr as it is
\* whenever the stderr is valid UTF-8.
C5_StderrLossy ==
  \A i \in ReqIds :
    /\ (SpawnFailed(i) \/ (Responded(i) /\ ExitedNonZero(i)))
         => IsError(response[i], 500, "server_error")
    /\ (Responded(i) /\ ExitedNonZero(i))
         => LET message == response[i].error.message
                intro == Chars("Image generation failed: ")
                text == SubSeq(message, Len(intro) + 1, Len(message))
            IN  /\ IsPrefix(intro, message)
                /\ text = FromUtf8Lossy(child[i].stderr)
                /\ Utf8Valid(child[i].stderr)
                     => Utf8Encode(text) = child[i].stderr
                /\ ~Utf8Valid(child[i].stderr) => Has(text, "U+FFFD")

\* C5's case: a request answered after its process exited non-zero with a
\* stderr that is not valid UTF-8.
C5_Witness ==
  \E i \in ReqIds :
    /\ Responded(i)
    /\ ExitedNonZero(i)
    /\ child[i].stderr = <<69, 255>>

\* C6: when the process exits zero and reading the output path fails, the
\* answer is 500 server_error with a message about the read, there is no
\* image data in it, and the request attempts no removal of the path.
C6_ReadFailure ==
  \A i \in ReqIds :
    (ExitedZero(i) /\ hist[i].read = "err") =>
      /\ Responded(i)
      /\ IsError(response[i], 500, "server_error")
      /\ IsPrefix(Chars("Failed to read output image: "),
                  response[i].error.message)
      /\ ~Has(hist[i].events, "remove")
      /\ hist[i].removed = "no"

\* C6's case: a process that exited zero, and a failed read of its path.
C6_Witness ==
  \E i \in ReqIds :
    ExitedZero(i) /\ hist[i].read = "err" /\ Responded(i)

C8_UniqueOutputPaths ==
  \A i, j \in ReqIds :
    (i # j /\ Built(i) /\ Built(j))
      => local[i].output_path # local[j].output_path

\* C9 (as stated): a request gets exactly one response, 401, 500 or 200; a
\* failed step ends the pipeline; the process is spawned at most once.
C9_OneResponse401_500_200 ==
  \A i \in ReqIds :
    Responded(i) => response[i].status \in {401, 500, 200}

\* C9 (amended): a request gets exactly one response, 400 (the body did not
\* deserialize), 401, 500 or 200; a failed step ends the pipeline (no spawn
\* after a failed bearer check, no read after a spawn failure or a non-zero
\* exit, no removal after a failed read); the process is spawned at most
\* once.
C9_OneResponse ==
  \A i \in ReqIds :
    LET ev == hist[i].events
    IN  /\ Count(ev, "respond") = (IF Responded(i) THEN 1 ELSE 0)
        /\ Responded(i) <=> response[i] # NoResponse
        /\ Responded(i)
             => /\ response[i].status \in {400, 401, 500, 200}
                /\ ev[Len(ev)] = "respond"
        /\ Count(ev, "spawn") <= 1
        /\ response[i].status \in {400, 401}
             => ~Has(ev, "spawn") /\ ~Has(ev, "read") /\ ~Has(ev, "remove")
        /\ (SpawnFailed(i) \/ ExitedNonZero(i))
             => ~Has(ev, "read") /\ ~Has(ev, "remove")
        /\ hist[i].read = "err" => ~Has(ev, "remove")
        /\ Has(ev, "read") => ExitedZero(i)
        /\ Has(ev, "remove") => hist[i].read = "ok"

\* C9's case: one request answered after a non-zero exit and another
\* answered 200.
C9_Witness ==
  \E i, j \in ReqIds :
    /\ Responded(i) /\ ExitedNonZero(i)
    /\ Responded(j) /\ response[j].status = 200

\* C10 (as stated): a request reads the file its own process wrote, so the
\* bytes of a 200 are those its own process wrote, and no read fails because
\* another request removed the file.
C10_OwnOutputFile ==
  \A i \in ReqIds :
    /\ response[i].status = 200 => hist[i].read_writer = i
    /\ ~hist[i].missing_after_write

====
